---- MODULE Spec2Model ----
(***************************************************************************)
(* A model of the fontkit decode framework: the primitive wire-type        *)
(* decoders (src/src/primitives.rs), the cursor read adapter               *)
(* (src/src/decode.rs), the derived record decode                          *)
(* (src/decode_derive/src/lib.rs), the lazy Array and its iterator, the    *)
(* Version classification and the header table (src/src/font.rs) and the   *)
(* versioned maxp table (src/src/table/maxp.rs).                           *)
(*                                                                         *)
(* A byte-slice `&[u8]` is a view [off, len] into the font buffer `data`.  *)
(* A panic (index, slice or split_at out of bounds) is the result Panic.   *)
(* Integers of at most 31 value bits are TLA+ integers; u32, u64 and i64   *)
(* values are kept as their 16-bit limbs, most significant first.          *)
(***************************************************************************)
EXTENDS Integers, Sequences, FiniteSets, TLC

VARIABLES
    data,   \* the font buffer: a sequence of bytes
    cur,    \* the cursor: the `&[u8]` view that decode_read advances
    op,     \* the last call made: its name, type, parameter and the view it was given
    ret,    \* what the last call returned (or that it panicked)
    used,   \* the sum of encode_size() of the values the cursor reads returned so far
    arr,    \* the Array the caller holds
    it      \* the ArrayIter under iteration and what it has yielded

vars == <<data, cur, op, ret, used, arr, it>>

-----------------------------------------------------------------------------
(* Bounds of the model *)

MaxLen == 9
MaxCount == 2
MaxTail == 1
MaxTables == 2
MaxNext == 3
MaxBody == 29

-----------------------------------------------------------------------------
(* Results and errors: error.rs *)

Error == {"UnexpectedEof", "InvalidData", "UnsupportedCmapFormat",
          "UnsupportedVersion", "TtcfUnsupported"}

Ok(v) == [tag |-> "Ok", val |-> v]
Err(e) == [tag |-> "Err", val |-> e]
Panic == [tag |-> "Panic", val |-> "out of bounds"]
\* The member of a singleton set: a value computed once and then named
The(S) == CHOOSE x \in S : TRUE

NoCall == [tag |-> "NoCall", val |-> "none"]

\* What a call that cannot fail returns
Value(v) == [tag |-> "Value", val |-> v]

IsOk(r) == r.tag = "Ok"
IsErr(r, e) == r.tag = "Err" /\ r.val = e
IsPanic(r) == r.tag = "Panic"

-----------------------------------------------------------------------------
(* Byte-slice views *)

View(o, l) == [off |-> o, len |-> l]

\* buffer[i], 0-based, for i < buffer.len
At(b, i) == data[b.off + i + 1]

\* &buffer[n..] and buffer.split_at(n).1, for n <= buffer.len
SliceFrom(b, n) == View(b.off + n, b.len - n)

Whole == View(0, Len(data))

-----------------------------------------------------------------------------
(* Types *)

Plain(n) == [n |-> n, k |-> "Plain"]
Ignored(n) == [n |-> n, k |-> "Ignored"]
Discarded(n) == [n |-> n, k |-> "Discarded"]
Array(n) == [n |-> n, k |-> "Array"]

Conv(n) ==
    CASE n = "FWord" -> "read_i16"
      [] n = "UFWord" -> "read_u16"
      [] n = "F2Dot14" -> "read_i16"
      [] n = "Fixed" -> "read_i32"
      [] n = "LongDateTime" -> "read_u64"
      [] n = "u8" -> "read_u8"
      [] n = "i8" -> "read_i8"
      [] n = "u16" -> "read_u16"
      [] n = "i16" -> "read_i16"
      [] n = "u32" -> "read_u32"
      [] n = "i32" -> "read_i32"
      [] n = "i64" -> "read_i64"

ImplDecodeTypes == {"FWord", "UFWord", "F2Dot14", "Fixed", "LongDateTime",
                    "u8", "i8", "u16", "i16", "u32", "i32", "i64"}

ScalarTypes == ImplDecodeTypes \cup {"Uint24", "Tag"}

DerivedTypes == {"TableRecord", "Version05", "Version1"}

-----------------------------------------------------------------------------
(* Record shapes: the structs that derive Decode *)

Field(name, ty, with) == [name |-> name, ty |-> ty, with |-> with]

Fields(n) ==
    CASE n = "TableRecord" ->
           << Field("tag", Plain("Tag"), ""),
              Field("check_sum", Plain("u32"), ""),
              Field("offset", Plain("u32"), ""),
              Field("length", Plain("u32"), "") >>
      [] n = "OffsetTable" ->
           << Field("__font", Discarded("&[u8]"), ""),
              Field("sfnt_version", Plain("Version"), ""),
              Field("num_tables", Discarded("u16"), ""),
              Field("search_range", Ignored("u16"), ""),
              Field("entry_selector", Ignored("u16"), ""),
              Field("range_shift", Ignored("u16"), ""),
              Field("tables", Array("TableRecord"), "num_tables") >>
      [] n = "Version05" ->
           << Field("version", Plain("Fixed"), ""),
              Field("num_glyphs", Plain("u16"), "") >>
      [] n = "Version1" ->
           << Field("version", Plain("Fixed"), ""),
              Field("num_glyphs", Plain("u16"), ""),
              Field("max_points", Plain("u16"), ""),
              Field("max_contours", Plain("u16"), ""),
              Field("max_composite_points", Plain("u16"), ""),
              Field("max_composite_contours", Plain("u16"), ""),
              Field("max_zones", Plain("u16"), ""),
              Field("max_twilight_points", Plain("u16"), ""),
              Field("max_storage", Plain("u16"), ""),
              Field("max_function_defs", Plain("u16"), ""),
              Field("max_instruction_defs", Plain("u16"), ""),
              Field("max_stack_elements", Plain("u16"), ""),
              Field("max_size_of_instructions", Plain("u16"), ""),
              Field("max_component_elements", Plain("u16"), ""),
              Field("max_component_depth", Plain("u16"), "") >>

\* A field is taken from a parameter when its name starts with "__".
is_param_field(f) == f.name = "__font"

NotParam(f) == ~is_param_field(f)

\* variants.iter().filter(|field| !is_param_field(field))
DecodedFields(n) == SelectSeq(Fields(n), NotParam)

-----------------------------------------------------------------------------
(* Encoded sizes: StaticEncodeSize and EncodeSize *)

\* std::mem::size_of of the types impl_decode! covers
size_of(n) ==
    CASE n \in {"u8", "i8"} -> 1
      [] n \in {"u16", "i16", "FWord", "UFWord", "F2Dot14"} -> 2
      [] n \in {"u32", "i32", "Fixed"} -> 4
      [] n \in {"i64", "LongDateTime"} -> 8

\* T::size() of the types that state their size themselves
PrimSize(ty) ==
    CASE ty.n \in ImplDecodeTypes -> size_of(ty.n)
      [] ty.n = "Uint24" -> 3
      [] ty.n = "Tag" -> 4
      [] ty.n = "Version" -> 4

RECURSIVE SumSizes(_)

\* #(<#tys as StaticEncodeSize>::size())+*, the field types being primitive
SumSizes(fs) ==
    IF fs = <<>> THEN 0 ELSE PrimSize(Head(fs).ty) + SumSizes(Tail(fs))

impl_static_size(n) == SumSizes(Fields(n))

\* T::size(); Ignored<T>::size() is T::size()
Size(ty) ==
    IF ty.n \in DerivedTypes THEN impl_static_size(ty.n) ELSE PrimSize(ty)

\* value.encode_size(), for a value of type ty
encode_size(ty, v) ==
    CASE ty.k = "Array" -> Size(Plain(ty.n)) * v.len
      [] ty.k = "Discarded" -> Size(Plain(ty.n))
      [] OTHER -> Size(ty)

-----------------------------------------------------------------------------
(* Big-endian reads: byteorder's BigEndian, and read_u8 / read_i8 *)

read_u8(b) == At(b, 0)

read_i8(b) == IF At(b, 0) >= 128 THEN At(b, 0) - 256 ELSE At(b, 0)

\* read_u16 reading the bytes in little-endian order
read_u16_le(b) == At(b, 1) * 256 + At(b, 0)

read_u16(b) == At(b, 0) * 256 + At(b, 1)

read_i16(b) == IF read_u16(b) >= 32768 THEN read_u16(b) - 65536 ELSE read_u16(b)

read_u24(b) == (At(b, 0) * 256 + At(b, 1)) * 256 + At(b, 2)

\* 16-bit limbs, most significant first
read_u32(b) == << read_u16(b), read_u16(SliceFrom(b, 2)) >>

read_i32(b) == read_i16(b) * 65536 + read_u16(SliceFrom(b, 2))

read_u64(b) ==
    << read_u16(b), read_u16(SliceFrom(b, 2)),
       read_u16(SliceFrom(b, 4)), read_u16(SliceFrom(b, 6)) >>

\* the leading limb carries the sign
read_i64(b) ==
    << read_i16(b), read_u16(SliceFrom(b, 2)),
       read_u16(SliceFrom(b, 4)), read_u16(SliceFrom(b, 6)) >>

Read(conv, b) ==
    CASE conv = "read_u8" -> read_u8(b)
      [] conv = "read_i8" -> read_i8(b)
      [] conv = "read_u16" -> read_u16(b)
      [] conv = "read_i16" -> read_i16(b)
      [] conv = "read_u32" -> read_u32(b)
      [] conv = "read_i32" -> read_i32(b)
      [] conv = "read_u64" -> read_u64(b)
      [] conv = "read_i64" -> read_i64(b)

\* a u32 literal as limbs
U32(n) == << n \div 65536, n % 65536 >>

-----------------------------------------------------------------------------
(* Primitive decoders *)

\* required_len!(buffer, len): TRUE when the macro returns Err(UnexpectedEof)
required_len(b, n) == b.len < n

\* impl_decode!: the decoders of the types whose stack size is their wire size
DecodeImpl(n, b) ==
    IF required_len(b, Size(Plain(n))) THEN Err("UnexpectedEof")
    ELSE Ok(Read(Conv(n), b))

DecodeUint24(b) ==
    IF required_len(b, Size(Plain("Uint24"))) THEN Err("UnexpectedEof")
    ELSE Ok(read_u24(b))

\* buffer[i] is in bounds
InBounds(b, i) == i < b.len

\* Tag::decode: buffer[0], buffer[1], buffer[2], buffer[3], with no length check
DecodeTag(b) ==
    IF \E i \in 0..3 : ~InBounds(b, i) THEN Panic
    ELSE Ok(<< At(b, 0), At(b, 1), At(b, 2), At(b, 3) >>)

OTTO == << 79, 84, 84, 79 >>
VERSION1 == << 0, 1, 0, 0 >>
TRUE_ == << 116, 114, 117, 101 >>
TYP1 == << 116, 121, 112, 49 >>
TTCF == << 116, 116, 99, 102 >>

\* a match that does not know "typ1"
VersionMatchNoTyp1(tag) ==
    CASE tag = OTTO -> Ok("OpenType")
      [] tag \in {VERSION1, TRUE_} -> Ok("TrueType")
      [] tag = TTCF -> Err("TtcfUnsupported")
      [] OTHER -> Err("InvalidData")

\* the match of Version::decode
VersionMatch(tag) ==
    CASE tag = OTTO -> Ok("OpenType")
      [] tag \in {VERSION1, TRUE_, TYP1} -> Ok("TrueType")
      [] tag = TTCF -> Err("TtcfUnsupported")
      [] OTHER -> Err("InvalidData")

DecodeVersion(b) ==
    LET tag == DecodeTag(b)
    IN  IF ~IsOk(tag) THEN tag ELSE VersionMatch(tag.val)

\* an Ignored::decode that looks at the bytes it is to skip
DecodeIgnoredPeek(b) ==
    IF b.len = 0 THEN Err("UnexpectedEof")
    ELSE IF At(b, 0) = 0 THEN Err("InvalidData")
    ELSE Ok("Ignored")

\* Ignored::decode: the buffer is not looked at
DecodeIgnored(b) == Ok("Ignored")

\* decode_with clamping the count to the whole elements the buffer holds
decode_with_clamped(ty, b, param) ==
    Ok([len |-> IF param * Size(Plain(ty.n)) > b.len THEN b.len \div Size(Plain(ty.n))
                ELSE param,
        buffer |-> b,
        elem |-> ty.n])

\* Array::decode_with: nothing is decoded
decode_with(ty, b, param) == Ok([len |-> param, buffer |-> b, elem |-> ty.n])

-----------------------------------------------------------------------------
(* Decode, the derived record decode, and the versioned maxp table *)

\* T::decode(buffer) for the types that are not derived records
DecodePrim(ty, b) ==
    CASE ty.k = "Ignored" -> DecodeIgnored(b)
      [] ty.k = "Plain" /\ ty.n \in ImplDecodeTypes -> DecodeImpl(ty.n, b)
      [] ty.k = "Plain" /\ ty.n = "Uint24" -> DecodeUint24(b)
      [] ty.k = "Plain" /\ ty.n = "Tag" -> DecodeTag(b)
      [] ty.k = "Plain" /\ ty.n = "Version" -> DecodeVersion(b)

\* <#ty>::decode(buf, param): the only parameterized field type is Array
Decode1(ty, b, param) == decode_with(ty, b, param)

RECURSIVE DecodeSteps(_, _, _, _)

\* buf.split_at(mid) panics when mid > buf.len
SplitPanics(b, mid) == mid > b.len

\* a field step that decodes a Discarded<T> field without splitting the buffer
decode_field_peek(f, buf, env) ==
    LET r == IF f.ty.k = "Discarded" THEN DecodePrim(Plain(f.ty.n), buf)
             ELSE IF f.with # "" THEN Decode1(f.ty, buf, env[f.with])
             ELSE DecodePrim(f.ty, buf)
    IN  IF ~IsOk(r) THEN [ret |-> r, buf |-> buf]
        ELSE IF f.ty.k = "Discarded" THEN [ret |-> r, buf |-> buf]
        ELSE IF SplitPanics(buf, encode_size(f.ty, r.val))
             THEN [ret |-> Panic, buf |-> buf]
        ELSE [ret |-> r, buf |-> SliceFrom(buf, encode_size(f.ty, r.val))]

\* One field's step of the generated decode: decode, then split the buffer
\* (the fields of the records here are not records themselves)
decode_field(f, buf, env) ==
    LET r == IF f.ty.k = "Discarded" THEN DecodePrim(Plain(f.ty.n), buf)
             ELSE IF f.with # "" THEN Decode1(f.ty, buf, env[f.with])
             ELSE DecodePrim(f.ty, buf)
    IN  IF ~IsOk(r) THEN [ret |-> r, buf |-> buf]
        ELSE IF SplitPanics(buf, encode_size(f.ty, r.val))
             THEN [ret |-> Panic, buf |-> buf]
        ELSE [ret |-> r, buf |-> SliceFrom(buf, encode_size(f.ty, r.val))]

\* #(#decode)*: the fields from the i-th on, in declaration order; sizes
\* lists the encode_size() of the fields decoded.  Each `let` of the code
\* is a value bound once, as the member of a singleton set.
DecodeSteps(fs, i, st, env) ==
    IF i > Len(fs) THEN [ret |-> Ok(env), buf |-> st.buf, sizes |-> st.sizes]
    ELSE The({ IF ~IsOk(s.ret)
               THEN [ret |-> s.ret, buf |-> st.buf, sizes |-> st.sizes]
               ELSE The({ DecodeSteps(fs, i + 1, st2, env2)
                          : st2 \in {[buf |-> s.buf,
                                      sizes |-> Append(st.sizes,
                                                       encode_size(fs[i].ty, s.ret.val))]},
                            env2 \in {(fs[i].name :> s.ret.val) @@ env} })
               : s \in {decode_field(fs[i], st.buf, env)} })

\* #ident : Discarded(PhantomData) or #ident : #ident
build_field(f, env) ==
    IF f.ty.k = "Discarded" THEN "Discarded" ELSE env[f.name]

\* a record decode that reports the failure of any field as InvalidData
impl_decode_masked(n, buffer, params) ==
    The({ IF s.ret.tag = "Err" THEN [ret |-> Err("InvalidData"), buf |-> s.buf, sizes |-> s.sizes]
          ELSE IF ~IsOk(s.ret) THEN s
          ELSE [ret |-> Ok([x \in {Fields(n)[i].name : i \in 1..Len(Fields(n))} |->
                              build_field(CHOOSE f \in {Fields(n)[i] : i \in 1..Len(Fields(n))} :
                                              f.name = x,
                                          s.ret.val)]),
                buf |-> s.buf, sizes |-> s.sizes]
          : s \in {DecodeSteps(DecodedFields(n), 1,
                               [buf |-> buffer, sizes |-> <<>>], params)} })

\* The generated decode of record n: the result, with the final `buf` and the
\* encode_size() of each field decoded
impl_decode(n, buffer, params) ==
    The({ IF ~IsOk(s.ret) THEN s
          ELSE [ret |-> Ok([x \in {Fields(n)[i].name : i \in 1..Len(Fields(n))} |->
                              build_field(CHOOSE f \in {Fields(n)[i] : i \in 1..Len(Fields(n))} :
                                              f.name = x,
                                          s.ret.val)]),
                buf |-> s.buf, sizes |-> s.sizes]
          : s \in {DecodeSteps(DecodedFields(n), 1,
                               [buf |-> buffer, sizes |-> <<>>], params)} })

NoParams == [x \in {} |-> 0]

DecodeDerived(n, b) == impl_decode(n, b, NoParams).ret

\* OffsetTable::decode(buffer, __font)
DecodeOffsetTable(b, font) == impl_decode("OffsetTable", b, [__font |-> font]).ret

\* a Maxp::decode that falls back to the 6-byte layout for an unknown version
DecodeMaxpFallback(b) ==
    LET version == DecodePrim(Plain("u32"), b)
    IN  IF ~IsOk(version) THEN version
        ELSE IF version.val = U32(65536)
             THEN The({ IF ~IsOk(t) THEN t ELSE Ok([t |-> t.val, variant |-> "Version1"])
                        : t \in {DecodeDerived("Version1", b)} })
        ELSE The({ IF ~IsOk(t) THEN t ELSE Ok([t |-> t.val, variant |-> "Version05"])
                   : t \in {DecodeDerived("Version05", b)} })

\* Maxp::decode
DecodeMaxp(b) ==
    LET version == DecodePrim(Plain("u32"), b)
    IN  IF ~IsOk(version) THEN version
        ELSE IF version.val = U32(20480)
             THEN The({ IF ~IsOk(t) THEN t ELSE Ok([t |-> t.val, variant |-> "Version05"])
                        : t \in {DecodeDerived("Version05", b)} })
        ELSE IF version.val = U32(65536)
             THEN The({ IF ~IsOk(t) THEN t ELSE Ok([t |-> t.val, variant |-> "Version1"])
                        : t \in {DecodeDerived("Version1", b)} })
        ELSE Err("UnsupportedVersion")

\* Maxp::get_num_glyphs
get_num_glyphs(m) == m.t.num_glyphs

\* T::decode(buffer)
Decode(ty, b) ==
    IF ty.n \in DerivedTypes THEN DecodeDerived(ty.n, b)
    ELSE IF ty.n = "Maxp" THEN DecodeMaxp(b)
    ELSE DecodePrim(ty, b)

-----------------------------------------------------------------------------
(* The cursor read adapter: decode.rs *)

\* &self[n..] panics when n > self.len
SlicePanics(b, n) == n > b.len

\* a cursor read that returns the value and forgets to advance the view
AdvanceStuck(ty, b, r) ==
    IF ~IsOk(r) THEN [ret |-> r, view |-> b]
    ELSE IF SlicePanics(b, encode_size(ty, r.val)) THEN [ret |-> Panic, view |-> b]
    ELSE [ret |-> r, view |-> b]

\* `let ret = ...?; *self = &self[ret.encode_size()..]; Ok(ret)`, for the
\* result r of the decode
Advance(ty, b, r) ==
    IF ~IsOk(r) THEN [ret |-> r, view |-> b]
    ELSE IF SlicePanics(b, encode_size(ty, r.val)) THEN [ret |-> Panic, view |-> b]
    ELSE [ret |-> r, view |-> SliceFrom(b, encode_size(ty, r.val))]

\* DecodeRead::decode_read::<T> on the view b
decode_read(ty, b) == The({ Advance(ty, b, r) : r \in {Decode(ty, b)} })

\* DecodeRead1::decode_read1::<T>(param) on the view b
decode_read1(ty, b, param) == The({ Advance(ty, b, r) : r \in {Decode1(ty, b, param)} })

-----------------------------------------------------------------------------
(* The lazy Array's iterator: primitives.rs *)

Some(v) == [tag |-> "Some", val |-> v]
None == [tag |-> "None", val |-> "none"]

\* Array::into_iter
into_iter(a) == [len |-> a.len, buffer |-> a.buffer, elem |-> a.elem, pos |-> 0]

\* Result::ok()
ok(r) == IF IsOk(r) THEN Some(r.val) ELSE IF IsPanic(r) THEN Panic ELSE None

\* a next() that does not count the element it reads
next_uncounted(i) ==
    IF i.pos >= i.len THEN [ret |-> None, iter |-> i]
    ELSE The({ [ret |-> ok(r.ret), iter |-> [i EXCEPT !.buffer = r.view]]
               : r \in {decode_read(Plain(i.elem), i.buffer)} })

\* ArrayIter::next: the item returned and the iterator afterwards
next(i) ==
    IF i.pos >= i.len THEN [ret |-> None, iter |-> i]
    ELSE The({ [ret |-> ok(r.ret),
                iter |-> [i EXCEPT !.pos = i.pos + 1, !.buffer = r.view]]
               : r \in {decode_read(Plain(i.elem), i.buffer)} })

-----------------------------------------------------------------------------
(* Inputs: font buffers *)

\* n bytes, the first a, each next one s more (mod 256)
Pattern(a, s, n) == [i \in 1..n |-> (a + (i - 1) * s) % 256]

Starts == {0, 128, 254}
Steps == {1, 51}

Buffers == {Pattern(a, s, n) : a \in Starts, s \in Steps, n \in 0..MaxLen}

\* All the prefixes of the buffer q
PrefixesOf(q) == {SubSeq(q, 1, n) : n \in 0..Len(q)}

\* Four bytes, each one a byte some version tag has at its place, or 255
VersionWords ==
    {<<a, b, c, d>> : a \in {79, 0, 116, 255}, b \in {84, 1, 114, 121, 116, 255},
                      c \in {84, 0, 117, 112, 99, 255}, d \in {79, 0, 101, 49, 102, 255}}

Tails == {Pattern(a, 1, n) : a \in Starts, n \in 0..MaxTail}

VersionBuffers ==
    {w \o t : w \in VersionWords, t \in Tails}
        \cup UNION {PrefixesOf(w) : w \in {OTTO, VERSION1, TRUE_, TYP1, TTCF}}

\* The discriminants of a maxp table, and near misses
MaxpWords ==
    {<<0, 0, 80, 0>>, <<0, 1, 0, 0>>, <<0, 2, 0, 0>>, <<0, 0, 80, 1>>, <<128, 0, 80, 0>>,
     <<0, 0, 0, 0>>, <<1, 0, 0, 0>>, <<0, 80, 0, 0>>, <<0, 0, 1, 0>>}

MaxpBuffers ==
    UNION {PrefixesOf(w \o Pattern(a, s, MaxBody)) :
               w \in MaxpWords, a \in Starts, s \in Steps}

\* A header: version, num_tables, then the ignored fields, the records and
\* whatever follows, cut at every length
HeaderBuffers ==
    UNION {PrefixesOf(w \o <<h, l>> \o Pattern(a, 51, 6 + 16 * MaxTables + MaxTail)) :
               w \in {VERSION1, OTTO, TTCF, <<0, 1, 0, 1>>},
               h \in {0}, l \in 0..MaxTables, a \in {0, 200}}
      \cup PrefixesOf(VERSION1 \o <<1, 0>> \o Pattern(0, 51, 6 + 16 * MaxTables))

\* The statically-sized wire types
StaticTypes == {Plain(n) : n \in ScalarTypes \cup {"Version"}}

\* The types a cursor read is asked for
ReadTypes ==
    StaticTypes \cup {Plain(n) : n \in DerivedTypes}
                \cup {Ignored(n) : n \in {"u8", "u16", "u32"}}

ElemTypes == {"u8", "u16", "Tag", "Version", "TableRecord"}

-----------------------------------------------------------------------------
(* State *)

Call(name, ty, arg, pre) == [name |-> name, ty |-> ty, arg |-> arg, pre |-> pre]

NoArray == [a |-> [len |-> 0, buffer |-> View(0, 0), elem |-> "u8"], held |-> FALSE]
NoIter == [i |-> [len |-> 0, buffer |-> View(0, 0), elem |-> "u8", pos |-> 0],
           made |-> FALSE,
           out |-> <<>>, calls |-> 0, ended |-> FALSE, first |-> <<>>, nth |-> 0]

Running == ~IsPanic(ret)

\* A font buffer of the family B, and a cursor over all of it
Start(B) ==
    /\ data \in B
    /\ cur = Whole
    /\ op = Call("new", Plain("u8"), 0, Whole)
    /\ ret = NoCall
    /\ used = 0
    /\ arr = NoArray
    /\ it = NoIter

Init == Start(Buffers)

\* T::decode(cursor): the cursor itself is not touched
CallDecode(ty) ==
    /\ Running
    /\ op' = Call("decode", ty, 0, cur)
    /\ ret' = Decode(ty, cur)
    /\ UNCHANGED <<data, cur, used, arr, it>>

\* cursor.decode_read::<T>()
CallDecodeRead(ty) ==
    /\ Running
    /\ op' = Call("decode_read", ty, 0, cur)
    /\ \E r \in {decode_read(ty, cur)} :
           /\ ret' = r.ret
           /\ cur' = r.view
           /\ used' = IF IsOk(r.ret) THEN used + encode_size(ty, r.ret.val) ELSE used
    /\ UNCHANGED <<data, arr, it>>

\* cursor.decode_read1::<Array<T>>(param)
CallDecodeRead1(ty, param) ==
    /\ Running
    /\ op' = Call("decode_read1", ty, param, cur)
    /\ \E r \in {decode_read1(ty, cur, param)} :
           /\ ret' = r.ret
           /\ cur' = r.view
           /\ used' = IF IsOk(r.ret) THEN used + encode_size(ty, r.ret.val) ELSE used
    /\ UNCHANGED <<data, arr, it>>

Next ==
    \/ \E ty \in StaticTypes : CallDecode(ty)
    \/ \E ty \in ReadTypes : CallDecodeRead(ty)
    \/ \E n \in ElemTypes, c \in 0..MaxCount : CallDecodeRead1(Array(n), c)

Spec == Init /\ [][Next]_vars

-----------------------------------------------------------------------------
(* The lazy Array: construction and iteration *)

\* Array::<T>::decode_with(buffer, count) on the whole buffer
CallDecodeWith(n, count) ==
    /\ Running
    /\ ~arr.held
    /\ op' = Call("decode_with", Array(n), count, cur)
    /\ ret' = decode_with(Array(n), cur, count)
    /\ arr' = [a |-> decode_with(Array(n), cur, count).val, held |-> TRUE]
    /\ UNCHANGED <<data, cur, used, it>>

\* array.into_iter(): a fresh iterator (Array is Copy); `first` keeps what the
\* first iterator of this Array yielded
CallIntoIter ==
    /\ Running
    /\ arr.held
    /\ it.nth < 2
    /\ op' = Call("into_iter", Array(arr.a.elem), 0, arr.a.buffer)
    /\ ret' = NoCall
    /\ it' = [i |-> into_iter(arr.a), made |-> TRUE, out |-> <<>>, calls |-> 0,
              ended |-> FALSE,
              first |-> it.out,
              nth |-> it.nth + 1]
    /\ UNCHANGED <<data, cur, used, arr>>

\* iter.next()
CallNext ==
    /\ Running
    /\ it.made
    /\ it.calls < MaxNext
    /\ op' = Call("next", Plain(it.i.elem), 0, it.i.buffer)
    /\ \E r \in {next(it.i)} :
           /\ ret' = r.ret
           /\ it' = [it EXCEPT !.i = r.iter,
                               !.calls = it.calls + 1,
                               !.out = IF r.ret.tag = "Some" /\ ~it.ended
                                       THEN Append(it.out, r.ret.val) ELSE it.out,
                               !.ended = IF it.ended THEN TRUE ELSE r.ret.tag = "None"]
    /\ UNCHANGED <<data, cur, used, arr>>

NextArray ==
    \/ \E n \in ElemTypes, c \in 0..MaxCount : CallDecodeWith(n, c)
    \/ CallIntoIter
    \/ CallNext

SpecArray == Init /\ [][NextArray]_vars

-----------------------------------------------------------------------------
(* The Version classification *)

InitVersion == Start(VersionBuffers)

NextVersion ==
    \/ CallDecode(Plain("Version"))
    \/ CallDecodeRead(Plain("Version"))

SpecVersion == InitVersion /\ [][NextVersion]_vars

-----------------------------------------------------------------------------
(* The maxp table *)

InitMaxp == Start(MaxpBuffers)

\* maxp.get_num_glyphs(), on the table the last call decoded
CallGetNumGlyphs ==
    /\ Running
    /\ op.name = "decode"
    /\ op.ty = Plain("Maxp")
    /\ IsOk(ret)
    /\ op' = Call("get_num_glyphs", Plain("Maxp"), ret.val, op.pre)
    /\ ret' = Value(get_num_glyphs(ret.val))
    /\ UNCHANGED <<data, cur, used, arr, it>>

NextMaxp ==
    \/ \E n \in {"Maxp", "Version05", "Version1"} : CallDecode(Plain(n))
    \/ CallGetNumGlyphs

SpecMaxp == InitMaxp /\ [][NextMaxp]_vars

-----------------------------------------------------------------------------
(* The header table *)

InitFont == Start(HeaderBuffers)

\* OffsetTable::decode(&data, &data); the caller keeps font.tables
CallDecodeOffsetTable ==
    /\ Running
    /\ ~arr.held
    /\ op' = Call("decode", Plain("OffsetTable"), 0, cur)
    /\ \E r \in {DecodeOffsetTable(cur, Whole)} :
           /\ ret' = r
           /\ arr' = IF IsOk(r) THEN [a |-> r.val.tables, held |-> TRUE] ELSE arr
    /\ UNCHANGED <<data, cur, used, it>>

NextFont ==
    \/ CallDecodeOffsetTable
    \/ CallIntoIter
    \/ CallNext

SpecFont == InitFont /\ [][NextFont]_vars

-----------------------------------------------------------------------------
(* The derived record decodes, on header and maxp buffers cut at every length *)

InitRecord == Start(HeaderBuffers \cup MaxpBuffers)

NextRecord ==
    \/ \E n \in DerivedTypes \cup {"Maxp"} : CallDecode(Plain(n))
    \/ CallDecodeOffsetTable

SpecRecord == InitRecord /\ [][NextRecord]_vars

-----------------------------------------------------------------------------
(* Ignored fields: skipped by the cursor and inside the header table *)

\* TrueType headers with their records, cut at every length
IgnoredBuffers ==
    UNION {PrefixesOf(VERSION1 \o <<0, l>> \o Pattern(a, 51, 6 + 16 * l)) :
               l \in 0..MaxTables, a \in {0, 200}}

InitIgnored == Start(IgnoredBuffers)

NextIgnored ==
    \/ \E n \in {"u8", "u16", "u32"} : CallDecode(Ignored(n))
    \/ \E n \in {"u16", "u32"} : CallDecodeRead(Ignored(n))
    \/ CallDecodeRead(Plain("u16"))
    \/ CallDecodeOffsetTable

SpecIgnored == InitIgnored /\ [][NextIgnored]_vars

-----------------------------------------------------------------------------
(* What the claims speak of *)

Reads == {"decode_read", "decode_read1"}

\* The wire widths the specification lists
WireWidth(n) ==
    CASE n \in {"u8", "i8"} -> 1
      [] n \in {"u16", "i16", "FWord", "UFWord", "F2Dot14"} -> 2
      [] n = "Uint24" -> 3
      [] n \in {"u32", "i32", "Fixed", "Tag", "Version"} -> 4
      [] n \in {"i64", "LongDateTime"} -> 8
      [] n = "TableRecord" -> 16
      [] n = "Version05" -> 6
      [] n = "Version1" -> 32

\* The n bytes of the two's-complement image of v, most significant first
BytesOf(v, n) == [i \in 1..n |-> (v \div (256 ^ (n - i))) % 256]

\* The big-endian byte image of a decoded value of scalar type n
BigEndianImage(n, v) ==
    CASE n = "Tag" -> v
      [] n = "u32" -> BytesOf(v[1], 2) \o BytesOf(v[2], 2)
      [] n \in {"i64", "LongDateTime"} ->
           BytesOf(v[1], 2) \o BytesOf(v[2], 2) \o BytesOf(v[3], 2) \o BytesOf(v[4], 2)
      [] OTHER -> BytesOf(v, WireWidth(n))

\* v is a value of scalar type n
InRange(n, v) ==
    CASE n = "u8" -> v \in 0..255
      [] n = "i8" -> v \in -128..127
      [] n \in {"u16", "UFWord"} -> v \in 0..65535
      [] n \in {"i16", "FWord", "F2Dot14"} -> v \in -32768..32767
      [] n = "Uint24" -> v \in 0..16777215
      [] n \in {"i32", "Fixed"} -> v \in Int
      [] n = "u32" -> Len(v) = 2 /\ \A i \in 1..2 : v[i] \in 0..65535
      [] n = "LongDateTime" -> Len(v) = 4 /\ \A i \in 1..4 : v[i] \in 0..65535
      [] n = "i64" -> /\ Len(v) = 4
                      /\ v[1] \in -32768..32767
                      /\ \A i \in 2..4 : v[i] \in 0..65535
      [] n = "Tag" -> Len(v) = 4 /\ \A i \in 1..4 : v[i] \in 0..255

\* The bytes of the view b, in order
BytesIn(b) == SubSeq(data, b.off + 1, b.off + b.len)

\* The first n bytes of the view b
FirstBytes(b, n) == SubSeq(data, b.off + 1, b.off + n)

\* What T::decode gives on the view a call was made with
DecodeOf(o) ==
    IF o.name = "decode_read1" THEN Decode1(o.ty, o.pre, o.arg) ELSE Decode(o.ty, o.pre)

\* The bytes a call must find in its view
Needs(o) == IF o.ty.k = "Array" THEN WireWidth(o.ty.n) * o.arg ELSE WireWidth(o.ty.n)

RECURSIVE Sum(_)
Sum(q) == IF q = <<>> THEN 0 ELSE Head(q) + Sum(Tail(q))

Min(a, b) == IF a < b THEN a ELSE b

-----------------------------------------------------------------------------
(* C1: T::decode on a buffer shorter than T::size() returns                *)
(* Err(UnexpectedEof) for every statically-sized wire type T; it never     *)
(* succeeds and never faults.                                              *)
C1_ShortBufferEof ==
    (op.name = "decode" /\ op.ty \in StaticTypes /\ op.pre.len < WireWidth(op.ty.n))
        => IsErr(ret, "UnexpectedEof")

(* C2: on a buffer of at least T::size() bytes a scalar T::decode succeeds, *)
(* its value is the big-endian interpretation of the first T::size() bytes  *)
(* (so it depends on no later byte), and its encode_size() is T::size(),    *)
(* the width the specification lists.                                       *)
C2_BigEndianDecode ==
    (op.name = "decode" /\ op.ty.n \in ScalarTypes /\ op.pre.len >= WireWidth(op.ty.n))
        => /\ IsOk(ret)
           /\ InRange(op.ty.n, ret.val)
           /\ BigEndianImage(op.ty.n, ret.val) = FirstBytes(op.pre, WireWidth(op.ty.n))
           /\ encode_size(op.ty, ret.val) = Size(op.ty)
           /\ Size(op.ty) = WireWidth(op.ty.n)

\* An i64 with its sign bit set, decoded from a buffer longer than its width
C2_Witness ==
    /\ op.name = "decode" /\ op.ty = Plain("i64")
    /\ op.pre.len > 8
    /\ IsOk(ret) /\ ret.val[1] < 0

(* C3: a cursor read whose T::decode fails returns that error and leaves   *)
(* the view as it was; one whose T::decode succeeds advances the view's    *)
(* start by the value's encode_size(); the buffer's bytes do not change.   *)
C3_Step ==
    op'.name \in Reads =>
        /\ DecodeOf(op').tag = "Err" => (ret' = DecodeOf(op') /\ cur' = cur)
        /\ IsOk(DecodeOf(op')) =>
              /\ cur'.off = cur.off + encode_size(op'.ty, DecodeOf(op').val)
              /\ cur'.off + cur'.len = cur.off + cur.len
        /\ data' = data

C3_CursorRead == [][C3_Step]_vars

(* C4: no cursor read and no field step of a derived record decode faults: *)
(* when fewer bytes remain than the step accounts for, it returns          *)
(* Err(UnexpectedEof) instead of slicing or splitting past the view's end. *)
C4_BoundsSafe ==
    op.name \in Reads =>
        /\ ~IsPanic(ret)
        /\ Needs(op) > op.pre.len => IsErr(ret, "UnexpectedEof")

(* C5: after any successful cursor reads the view is the suffix of the     *)
(* buffer at the sum of the encode_size() of the values read, each value   *)
(* being the one decoded at the offset its predecessors left; a derived    *)
(* record decode consumes the sum of its decoded fields' encode_size(),    *)
(* taken in declaration order, and so does the cursor that reads it.       *)
C5_SequentialConsumption ==
    /\ cur.off = used
    /\ cur.off + cur.len = Len(data)
    /\ (op.name \in Reads /\ IsOk(ret)) =>
          /\ used = op.pre.off + encode_size(op.ty, ret.val)
          /\ ret = DecodeOf(op)
    /\ (op.name = "decode_read" /\ op.ty.k = "Plain" /\ op.ty.n \in DerivedTypes /\ IsOk(ret)) =>
          LET s == impl_decode(op.ty.n, op.pre, NoParams)
              fs == DecodedFields(op.ty.n)
          IN  /\ Len(s.sizes) = Len(fs)
              /\ \A i \in 1..Len(fs) :
                    s.sizes[i] = encode_size(fs[i].ty, ret.val[fs[i].name])
              /\ s.buf.off - op.pre.off = Sum(s.sizes)
              /\ cur.off - op.pre.off = Sum(s.sizes)
              /\ Sum(s.sizes) = WireWidth(op.ty.n)

\* A derived record read by the cursor after an earlier read
C5_Witness ==
    /\ op.name = "decode_read" /\ op.ty = Plain("Version05")
    /\ IsOk(ret) /\ op.pre.off > 0 /\ used = op.pre.off + 6

\* The classification the specification gives for a 4-byte value
VersionClass(w) ==
    CASE w = <<79, 84, 84, 79>> -> Ok("OpenType")
      [] w = <<0, 1, 0, 0>> -> Ok("TrueType")
      [] w = <<116, 114, 117, 101>> -> Ok("TrueType")
      [] w = <<116, 121, 112, 49>> -> Ok("TrueType")
      [] w = <<116, 116, 99, 102>> -> Err("TtcfUnsupported")
      [] OTHER -> Err("InvalidData")

(* C6: Version::decode classifies the first 4 bytes of the buffer: "OTTO"  *)
(* gives Ok(OpenType); 00 01 00 00, "true" and "typ1" give Ok(TrueType);   *)
(* "ttcf" gives Err(TtcfUnsupported); every other 4-byte value gives       *)
(* Err(InvalidData); the result is a function of those 4 bytes alone,      *)
(* whatever follows them.                                                  *)
C6_VersionClassification ==
    (op.name \in {"decode", "decode_read"} /\ op.ty = Plain("Version") /\ op.pre.len >= 4)
        => ret = VersionClass(FirstBytes(op.pre, 4))

\* "typ1" followed by a further byte, classified as TrueType
C6_Witness ==
    /\ op.name = "decode" /\ op.ty = Plain("Version")
    /\ op.pre.len > 4
    /\ FirstBytes(op.pre, 4) = <<116, 121, 112, 49>>
    /\ ret = Ok("TrueType")

\* The big-endian u16 at offset i of the view b
U16At(b, i) == At(b, i) * 256 + At(b, i + 1)

\* The table t holds the fields of record n, field 1 being the version and
\* field i > 1 the big-endian u16 at offset 4 + 2 * (i - 2) of the view b
MaxpLayout(n, t, b, version) ==
    LET fs == Fields(n)
    IN  /\ DOMAIN t = {fs[i].name : i \in 1..Len(fs)}
        /\ t.version = version
        /\ \A i \in 2..Len(fs) : t[fs[i].name] = U16At(b, 4 + 2 * (i - 2))
        /\ impl_decode(n, b, NoParams).buf = SliceFrom(b, 4 + 2 * (Len(fs) - 1))

(* C7: Maxp::decode dispatches on the big-endian u32 at offset 0:          *)
(* 0x00005000 gives Maxp::Version05 decoded from the same buffer as a      *)
(* 6-byte layout, 0x00010000 gives Maxp::Version1 decoded from the same    *)
(* buffer as a 32-byte layout (Err(UnexpectedEof) when the buffer is       *)
(* shorter than the layout), any other value gives Err(UnsupportedVersion);*)
(* the variant's version field equals the discriminant and                 *)
(* get_num_glyphs() returns the big-endian u16 at offset 4.                *)
C7_MaxpDispatch ==
    /\ (op.name = "decode" /\ op.ty = Plain("Maxp") /\ op.pre.len >= 4) =>
          LET d == FirstBytes(op.pre, 4)
          IN  CASE d = <<0, 0, 80, 0>> /\ op.pre.len >= 6 ->
                     /\ IsOk(ret)
                     /\ ret.val.variant = "Version05"
                     /\ Ok(ret.val.t) = Decode(Plain("Version05"), op.pre)
                     /\ MaxpLayout("Version05", ret.val.t, op.pre, 20480)
                     /\ Len(Fields("Version05")) = 2
                [] d = <<0, 1, 0, 0>> /\ op.pre.len >= 32 ->
                     /\ IsOk(ret)
                     /\ ret.val.variant = "Version1"
                     /\ Ok(ret.val.t) = Decode(Plain("Version1"), op.pre)
                     /\ MaxpLayout("Version1", ret.val.t, op.pre, 65536)
                     /\ Len(Fields("Version1")) = 15
                [] d \in {<<0, 0, 80, 0>>, <<0, 1, 0, 0>>} -> IsErr(ret, "UnexpectedEof")
                [] OTHER -> IsErr(ret, "UnsupportedVersion")
    /\ op.name = "get_num_glyphs" => ret = Value(U16At(op.pre, 4))

\* The glyph count of a Version1 table that bytes follow, more than one
\* byte wide
C7_Witness ==
    /\ op.name = "get_num_glyphs"
    /\ op.arg.variant = "Version1"
    /\ op.pre.len > 32
    /\ ret.val > 255

(* C8: iterating an Array<T> built by decode_with(buf, n) yields exactly   *)
(* min(n, len(buf) div T::size()) elements, the k-th decoded from the k-th *)
(* T::size() bytes of buf; when fewer than n whole elements are there the  *)
(* iteration ends instead of faulting; a fresh iterator starts at position *)
(* 0 and yields the same sequence again.                                   *)
C8_IterationYields ==
    it.made =>
        LET w == WireWidth(arr.a.elem)
            expected == Min(arr.a.len, arr.a.buffer.len \div w)
        IN  /\ ~IsPanic(ret)
            /\ Len(it.out) <= expected
            /\ \A k \in 1..Len(it.out) :
                  Ok(it.out[k]) =
                      Decode(Plain(arr.a.elem), View(arr.a.buffer.off + (k - 1) * w, w))
            /\ it.ended => Len(it.out) = expected
            /\ it.calls = 0 => (it.i.pos = 0 /\ it.i.buffer = arr.a.buffer)
            /\ it.nth = 2 =>
                  \A k \in 1..Min(Len(it.out), Len(it.first)) : it.out[k] = it.first[k]

(* C9: Array::decode_with(buffer, count) succeeds for every buffer and     *)
(* count, also when the buffer is shorter than count * T::size(); it       *)
(* stores the view and the count as given, and the Array's encode_size()   *)
(* is count * T::size().                                                   *)
C9_DecodeWithLazy ==
    op.name = "decode_with" =>
        /\ IsOk(ret)
        /\ ret.val.buffer = op.pre
        /\ ret.val.len = op.arg
        /\ ret.val.elem = op.ty.n
        /\ arr.a = ret.val
        /\ encode_size(op.ty, ret.val) = op.arg * WireWidth(op.ty.n)

\* An Array of more elements than its buffer holds
C9_Witness ==
    /\ op.name = "decode_with" /\ IsOk(ret)
    /\ op.arg > 0 /\ op.pre.len > 0
    /\ op.arg * WireWidth(op.ty.n) > op.pre.len

\* The buffer of the view b is laid out as a header with its num_tables records
HeaderLaidOut(b) == b.len >= 6 /\ b.len >= 12 + 16 * U16At(b, 4)

\* The 4 bytes at offset i of the buffer
Word(i) == SubSeq(data, i + 1, i + 4)

(* C10: for a buffer laid out as Version + num_tables + three ignored u16  *)
(* fields + num_tables 16-byte TableRecords, OffsetTable decode succeeds   *)
(* with sfnt_version the classification of bytes 0..4 (and returns the     *)
(* classification's error when it is one), with a tables Array of length   *)
(* num_tables whose view starts at offset 12; iterating it yields exactly  *)
(* the num_tables records, record k having tag = bytes 12+16k..16+16k and  *)
(* check_sum, offset, length the three big-endian u32 values that follow;  *)
(* the font parameter is not decoded and consumes no bytes.                *)
C10_HeaderTable ==
    /\ (op.name = "decode" /\ op.ty = Plain("OffsetTable") /\ HeaderLaidOut(op.pre)) =>
          LET n == U16At(op.pre, 4)
              v == VersionClass(FirstBytes(op.pre, 4))
              s == impl_decode("OffsetTable", op.pre, [__font |-> Whole])
          IN  IF IsOk(v)
              THEN /\ IsOk(ret)
                   /\ ret.val.sfnt_version = v.val
                   /\ ret.val.tables = [len |-> n, buffer |-> SliceFrom(op.pre, 12),
                                        elem |-> "TableRecord"]
                   /\ ret.val.__font = "Discarded"
                   /\ s.sizes = <<4, 2, 2, 2, 2, 16 * n>>
                   /\ s.buf = SliceFrom(op.pre, 12 + 16 * n)
                   /\ arr = [a |-> ret.val.tables, held |-> TRUE]
              ELSE ret = v
    /\ (it.made /\ arr.held) =>
          /\ ~IsPanic(ret)
          /\ Len(it.out) <= arr.a.len
          /\ it.ended => Len(it.out) = arr.a.len
          /\ \A j \in 1..Len(it.out) :
                LET k == j - 1
                IN  /\ it.out[j].tag = Word(12 + 16 * k)
                    /\ BigEndianImage("u32", it.out[j].check_sum) = Word(16 + 16 * k)
                    /\ BigEndianImage("u32", it.out[j].offset) = Word(20 + 16 * k)
                    /\ BigEndianImage("u32", it.out[j].length) = Word(24 + 16 * k)

\* A header of two records that a byte follows, iterated to the end
C10_Witness ==
    /\ it.made /\ arr.held /\ it.ended
    /\ arr.a.len = 2 /\ Len(it.out) = 2
    /\ Len(data) > 12 + 16 * 2
    /\ it.out[1].tag # it.out[2].tag

\* The view b is a header with its num_tables records, less its last byte
TruncatedHeader(b) ==
    /\ b.len >= 11
    /\ b.len + 1 = 12 + 16 * U16At(b, 4)
    /\ IsOk(VersionClass(FirstBytes(b, 4)))

\* The view b is a maxp table of either layout, less its last byte
TruncatedMaxp(b) ==
    /\ b.len >= 4
    /\ IF FirstBytes(b, 4) = <<0, 0, 80, 0>> THEN b.len = 5
       ELSE IF FirstBytes(b, 4) = <<0, 1, 0, 0>> THEN b.len = 31
       ELSE FALSE

(* C11: decoding a well-formed header-table buffer (12-byte header plus    *)
(* num_tables 16-byte records) or a well-formed maxp buffer (6 or 32       *)
(* bytes) with its last byte removed returns Err(UnexpectedEof): it never  *)
(* returns a record and never faults.                                      *)
C11_Truncation ==
    /\ (op.name = "decode" /\ op.ty = Plain("OffsetTable") /\ TruncatedHeader(op.pre))
          => IsErr(ret, "UnexpectedEof")
    /\ (op.name = "decode" /\ op.ty = Plain("Maxp") /\ TruncatedMaxp(op.pre))
          => IsErr(ret, "UnexpectedEof")

\* The records with a derived decode
RecordTypes == DerivedTypes \cup {"OffsetTable"}

\* The parameters the decode of record n is called with
ParamsOf(n) == IF n = "OffsetTable" THEN [__font |-> Whole] ELSE NoParams

\* The bytes field i of the fields fs starts at, by the widths the
\* specification lists (an Array is a record's last field)
FieldStart(fs, i) == Sum([j \in 1..(i - 1) |-> WireWidth(fs[j].ty.n)])

\* What the decode of the field f alone returns on the view b
FieldResult(f, b) ==
    IF f.ty.k = "Array" THEN Ok("Array")
    ELSE IF f.ty.k = "Discarded" THEN DecodePrim(Plain(f.ty.n), b)
    ELSE DecodePrim(f.ty, b)

(* C12: in a derived record decode the fields are decoded in declaration   *)
(* order; the first field whose decode returns an error aborts the record  *)
(* decode, which returns exactly that error; no later field is decoded,    *)
(* and a record that is returned has all its fields.                       *)
C12_ErrorPolicy ==
    (op.name = "decode" /\ op.ty.k = "Plain" /\ op.ty.n \in RecordTypes) =>
        LET fs == DecodedFields(op.ty.n)
            all == Fields(op.ty.n)
            res(i) == FieldResult(fs[i], SliceFrom(op.pre, FieldStart(fs, i)))
            s == impl_decode(op.ty.n, op.pre, ParamsOf(op.ty.n))
        IN  /\ \A i \in 1..Len(fs) :
                  ( /\ \A j \in 1..(i - 1) :
                          IsOk(res(j)) /\ FieldStart(fs, j + 1) <= op.pre.len
                    /\ res(i).tag = "Err" )
                  => /\ ret = res(i)
                     /\ Len(s.sizes) = i - 1
                     /\ s.buf = SliceFrom(op.pre, FieldStart(fs, i))
            /\ IsOk(ret) =>
                  /\ DOMAIN ret.val = {all[i].name : i \in 1..Len(all)}
                  /\ Len(s.sizes) = Len(fs)
                  /\ \A i \in 1..Len(fs) : IsOk(res(i))

\* A 32-byte record whose decode fails after some of its fields were decoded
C12_Witness ==
    /\ op.name = "decode" /\ op.ty = Plain("Version1")
    /\ op.pre.len > 20
    /\ IsErr(ret, "UnexpectedEof")

\* What holds of an Ignored<T> in every state
C13_State ==
    /\ (op.name \in {"decode", "decode_read"} /\ op.ty.k = "Ignored") =>
          /\ Decode(op.ty, op.pre) = Ok("Ignored")
          /\ Size(op.ty) = Size(Plain(op.ty.n))
          /\ Size(op.ty) = WireWidth(op.ty.n)
    /\ (op.name = "decode" /\ op.ty.k = "Ignored") =>
          (ret = Ok("Ignored") /\ cur = op.pre)
    /\ (op.name = "decode_read" /\ op.ty.k = "Ignored"
            /\ op.pre.len >= WireWidth(op.ty.n)) =>
          /\ ret = Ok("Ignored")
          /\ cur = SliceFrom(op.pre, WireWidth(op.ty.n))
    /\ (op.name = "decode" /\ op.ty = Plain("OffsetTable") /\ IsOk(ret)) =>
          LET s == impl_decode("OffsetTable", op.pre, [__font |-> Whole])
              fs == DecodedFields("OffsetTable")
          IN  /\ \A i \in 1..Len(fs) :
                    fs[i].ty.k = "Ignored" =>
                        /\ ret.val[fs[i].name] = "Ignored"
                        /\ s.sizes[i] = WireWidth(fs[i].ty.n)
              /\ {i \in 1..Len(fs) : fs[i].ty.k = "Ignored"} = {3, 4, 5}
              /\ ret.val.tables.buffer = SliceFrom(op.pre, 6 + 3 * WireWidth("u16"))

\* The read that follows a cursor read of an Ignored<T> decodes the bytes
\* right after the skipped ones
C13_Step ==
    ( /\ op.name = "decode_read" /\ op.ty.k = "Ignored" /\ IsOk(ret)
      /\ op'.name = "decode_read" /\ op'.ty = Plain("u16") )
    => /\ op'.pre = SliceFrom(op.pre, WireWidth(op.ty.n))
       /\ op'.pre.len >= 2 =>
             ret' = Ok(U16At(View(op.pre.off + WireWidth(op.ty.n), 2), 0))

(* C13: Ignored<T>::decode returns the same marker for every buffer        *)
(* content and Ignored<T>::size() is T::size(); a cursor read or record    *)
(* decode that processes an Ignored<T> field advances the view by exactly  *)
(* T::size() bytes, and the next field is decoded from the byte right      *)
(* after the skipped region.                                               *)
C13_IgnoredSkips == []C13_State /\ [][C13_Step]_vars

\* An Ignored<u32> skipped by the cursor in the middle of a buffer, with
\* bytes left for the next field
C13_Witness ==
    /\ op.name = "decode_read" /\ op.ty = Ignored("u32")
    /\ ret = Ok("Ignored")
    /\ op.pre.off > 0
    /\ cur.off = op.pre.off + 4 /\ cur.len >= 2

(* C14: over any sequence of next() calls on an ArrayIter, pos never       *)
(* exceeds len; the iterator's view is the suffix of the Array's buffer at *)
(* T::size() times the number of elements yielded so far; once next() has  *)
(* returned None, by pos reaching len or by an element decode failing,     *)
(* every later next() returns None; at most len elements are yielded, and  *)
(* after more than len calls the iteration has ended.                      *)
C14_IterInvariant ==
    it.made =>
        /\ it.i.pos <= it.i.len
        /\ it.i.len = arr.a.len
        /\ it.i.buffer.off + it.i.buffer.len = arr.a.buffer.off + arr.a.buffer.len
        /\ it.i.buffer.off = arr.a.buffer.off + WireWidth(it.i.elem) * Len(it.out)
        /\ Len(it.out) <= it.i.len
        /\ (it.ended /\ op.name = "next") => ret = None
        /\ (op.name = "next" /\ ret.tag = "Some") => ret.val = it.out[Len(it.out)]
        /\ it.calls > it.i.len => it.ended

\* An iterator that yielded one element, returned None because the second
\* element's decode failed, and was asked again
C14_Witness ==
    /\ it.made /\ it.ended
    /\ it.i.len = 2 /\ Len(it.out) = 1
    /\ it.calls = 3
    /\ op.name = "next" /\ ret = None

====
